---- MODULE Spec2Model ----
(***************************************************************************)
(* State-machine model of the three ChatApp components of the repository:  *)
(*   "rich"     src/src/components/chatapp/ChatApp.tsx                      *)
(*   "basic"    src/unnamed/part_000, lines 1-513   (session based)         *)
(*   "filename" src/unnamed/part_000, lines 514-1179 (filename addressed)   *)
(* One step of the model is one run of JavaScript between two awaits: an    *)
(* event handler up to its first await, or the continuation that runs when  *)
(* a fetch settles, up to the next await.                                   *)
(*                                                                          *)
(* Strings that the code builds from templates are sequences of string      *)
(* pieces (the template's literal parts and the interpolated values); the   *)
(* empty string is the empty sequence.                                      *)
(***************************************************************************)
EXTENDS Integers, Sequences, FiniteSets, TLC

VARIABLES
    variant,        \* which of the three components runs
    documents,      \* useState<Document[]>
    messages,       \* useState<Message[]>
    input,          \* useState("") : sequence of characters
    loading,        \* useState(false)
    apiError,       \* useState("")
    sessionInfo,    \* useState<SessionInfo | null>, "rich" only
    uploads,        \* handleFileUpload invocations, in order of invocation
    removals,       \* removeDocument invocations, in order of invocation
    listings,       \* list-documents requests in flight, "filename" only
    infos,          \* session-info requests of toggleSelection in flight, "rich" only
    chats,          \* sendMessage invocations, in order of invocation
    nextId,         \* number of ids Math.random() has produced
    nextSession,    \* number of sessions the server has created
    backendStatus,  \* useState<"unknown" | "healthy" | "unhealthy">, "rich" and "basic"
    health,         \* checkHealth of the mount effect: where it is, what it got
    showSources,    \* useState<{[key: number]: boolean}>({}), "rich" only
    unhandled,      \* promise rejections no handler has caught
    cleared         \* sessions the server has torn down (DELETE /clear-session)

vars == <<variant, documents, messages, input, loading, apiError, sessionInfo,
          uploads, removals, listings, infos, chats, nextId, nextSession,
          backendStatus, health, showSources, unhandled,
          cleared>>

------------------------------------------------------------------------------
(* Bounds of the model.  The handlers themselves are unbounded; each        *)
(* next-state relation below bounds how often it invokes them.               *)

MaxBatch == 2            \* files in one FileList

UploadCalls == 1         \* handleFileUpload invocations under SpecUpload
UploadRemovals == 1      \* removeDocument invocations under SpecUpload

DocsCalls == 2           \* handleFileUpload invocations under SpecDocs
DocsRemovals == 2        \* removeDocument invocations under SpecDocs
DocsInfos == 1           \* session-info requests of toggleSelection in flight

ChatCalls == 2           \* sendMessage invocations under SpecChat
ChatUploads == 1         \* handleFileUpload invocations under SpecChat

AskCalls == 1            \* sendMessage invocations under SpecAsk
AskRemovals == 1         \* removeDocument invocations under SpecAsk

------------------------------------------------------------------------------
(* Program constants *)

Variants == {"rich", "basic", "filename"}
SessionBased == {"rich", "basic"}

SizeLimit == 10 * 1024 * 1024

PdfType == "application/pdf"

NoSession == "undefined"       \* sessionId?: string, absent
NoError == << >>               \* error?: string, absent

\* Progress milestones of each component: after the Document is added, after
\* the first remote call, on completion.
ProgressStarted(v) == IF v = "rich" THEN 25 ELSE 30
ProgressSession(v) == IF v = "rich" THEN 50 ELSE IF v = "basic" THEN 60 ELSE 70
ProgressDone == 100


------------------------------------------------------------------------------
(* Remote responses.  A fetch either rejects (net = "throw") or resolves    *)
(* with a 2xx or a non-2xx status; the body is either not JSON ("invalid"),  *)
(* empty ("empty", told apart by safeJsonParse only) or a JSON object with   *)
(* an optional error field and the endpoint's payload in data.  The outcome  *)
(* of a request is drawn when the request is issued and kept with the        *)
(* invocation that awaits it.                                                *)

NoData == "undefined"
ErrorStatus == <<"500">>
ErrorStatusText == <<"Internal Server Error">>
TransportErrorText == <<"Failed to fetch">>            \* message of fetch's TypeError
SyntaxErrorText == <<"Unexpected token < in JSON">>     \* message of json()'s SyntaxError
ServerErrorText == <<"server: request rejected">>       \* an error field the server sends

Response(net, body, error, data) ==
    [net |-> net, body |-> body, error |-> error, data |-> data]

NoResponse == Response("none", "none", NoError, NoData)
Throws == Response("throw", "none", NoError, NoData)

\* res.ok
Ok(r) == r.net = "2xx"

\* x || y on strings: the empty string and undefined are falsy
OrElse(x, y) == IF x # << >> THEN x ELSE y

\* Non-2xx responses whose body the code reads.
ErrorResponses ==
    { Response("non2xx", "invalid", NoError, NoData),
      Response("non2xx", "object", NoError, NoData),
      Response("non2xx", "object", ServerErrorText, NoData) }

SessionName(n) == "s" \o ToString(n)

\* POST /create-session.  "basic" does not read the body of a non-2xx response.
CreateSessionResponses(v, n) ==
    { Throws,
      Response("2xx", "invalid", NoError, NoData),
      Response("2xx", "object", NoError, SessionName(n)) }
    \cup (IF v = "rich" THEN ErrorResponses
          ELSE { Response("non2xx", "invalid", NoError, NoData) })

\* POST /upload-pdf.  "basic" does not read the body of a 2xx response; "rich"
\* reads session_info from it, which the server may leave out.
UploadPdfResponses(v) ==
    { Throws } \cup ErrorResponses
    \cup (IF v = "rich"
          THEN { Response("2xx", "invalid", NoError, NoData),
                 Response("2xx", "object", NoError, "session_info"),
                 Response("2xx", "object", NoError, NoData) }
          ELSE { Response("2xx", "object", NoError, NoData) })

\* POST /upload of "filename": the body carries the stored file's name.
ServerFileNames == { "report.pdf", "report_1.pdf" }

UploadResponses ==
    { Throws, Response("2xx", "invalid", NoError, NoData),
      Response("2xx", "empty", NoError, NoData),
      Response("non2xx", "empty", NoError, NoData) }
    \cup ErrorResponses
    \cup { Response("2xx", "object", NoError, f) : f \in ServerFileNames }

\* safeJsonParse (part_000:565-577): the message of the error it throws, or the
\* empty sequence when it returns the parsed body.
SafeJsonParseError(r) ==
    CASE r.body = "empty" ->
            <<"Server returned empty response (Status: ">>
                \o (IF Ok(r) THEN <<"200">> ELSE ErrorStatus) \o <<")">>
      [] r.body = "invalid" ->
            <<"Invalid JSON response from server: ", "<html>", "...">>
      [] OTHER -> NoError

------------------------------------------------------------------------------
(* Files offered to handleFileUpload *)

File(name, type, size) == [name |-> name, type |-> type, size |-> size]

Files ==
    { File("report.pdf", PdfType, 2 * 1024 * 1024),
      File("limit.pdf", PdfType, SizeLimit),
      File("big.pdf", PdfType, SizeLimit + 1),
      File("notes.txt", "text/plain", 2 * 1024 * 1024) }

\* The two validation tests of the loop body, in the code's order.
NotPdf(file) == file.type # PdfType
TooLargeInclusive(file) == file.size >= SizeLimit     \* mutant: >= for >
TooLarge(file) == file.size > SizeLimit
Rejected(file) == NotPdf(file) \/ TooLarge(file)

\* The text setApiError receives for a rejected file.
ValidationMessage(v, file) ==
    IF NotPdf(file)
    THEN CASE v = "rich" -> <<file.name, " is not a PDF file. Only PDF files are allowed.">>
           [] v = "basic" -> <<"PDF files only">>
           [] OTHER -> <<"Only PDF files are allowed">>
    ELSE CASE v = "rich" -> <<file.name, " is too large. Maximum size is 10MB.">>
           [] v = "basic" -> <<file.name, " too large (max 10MB)">>
           [] OTHER -> <<"File ", file.name, " is too large (max 10MB)">>

\* The loop of handleFileUpload from file i on, up to the first accepted file:
\* every rejected file sets the banner and is skipped (continue).
RECURSIVE SkipRejected(_, _, _, _)
SkipRejected(v, files, i, banner) ==
    IF i > Len(files) \/ ~Rejected(files[i])
    THEN [idx |-> i, apiError |-> banner]
    ELSE SkipRejected(v, files, i + 1, ValidationMessage(v, files[i]))

------------------------------------------------------------------------------
(* The registry *)

NewDocument(id, file) ==
    [id |-> id, name |-> file.name, size |-> file.size, uploaded |-> FALSE,
     progress |-> 0, selected |-> FALSE, sessionId |-> NoSession, error |-> NoError]

\* prev.map(d => d.id === id ? f(d) : d), for each update the code makes
MapProgress(docs, id, p) ==
    [i \in DOMAIN docs |->
        IF docs[i].id = id THEN [docs[i] EXCEPT !.progress = p] ELSE docs[i]]

\* mutant: the milestone is written without the session id
MapSessionProgressOnly(docs, id, p, sid) ==
    [i \in DOMAIN docs |->
        IF docs[i].id = id THEN [docs[i] EXCEPT !.progress = p] ELSE docs[i]]

MapSession(docs, id, p, sid) ==
    [i \in DOMAIN docs |->
        IF docs[i].id = id THEN [docs[i] EXCEPT !.progress = p, !.sessionId = sid]
        ELSE docs[i]]

\* mutant: the completion puts a Document back that is no longer there
MapUploadedUpsert(docs, id) ==
    IF \E i \in DOMAIN docs : docs[i].id = id
    THEN [i \in DOMAIN docs |->
            IF docs[i].id = id
            THEN [docs[i] EXCEPT !.progress = ProgressDone, !.uploaded = TRUE]
            ELSE docs[i]]
    ELSE Append(docs, [NewDocument(id, File("report.pdf", PdfType, 0))
                          EXCEPT !.progress = ProgressDone, !.uploaded = TRUE])

\* mutant: the completion is written to every Document of the registry
MapUploadedAll(docs, id) ==
    [i \in DOMAIN docs |->
        [docs[i] EXCEPT !.progress = ProgressDone, !.uploaded = TRUE]]

MapUploaded(docs, id) ==
    [i \in DOMAIN docs |->
        IF docs[i].id = id
        THEN [docs[i] EXCEPT !.progress = ProgressDone, !.uploaded = TRUE]
        ELSE docs[i]]

\* "filename": the id and the name become the name the server returned
MapStored(docs, id, filename) ==
    [i \in DOMAIN docs |->
        IF docs[i].id = id
        THEN [docs[i] EXCEPT !.id = filename, !.name = filename,
                             !.progress = ProgressDone, !.uploaded = TRUE]
        ELSE docs[i]]

\* mutant: the catch block does not reset progress
MapFailedKeepsProgress(v, docs, id, msg) ==
    [i \in DOMAIN docs |->
        IF docs[i].id = id THEN [docs[i] EXCEPT !.error = msg] ELSE docs[i]]

\* mutant: the catch block marks every Document of the registry
MapFailedAll(v, docs, id, msg) ==
    [i \in DOMAIN docs |-> [docs[i] EXCEPT !.error = msg, !.progress = 0]]

\* the catch block of "rich" and of "basic" ("basic" leaves uploaded alone)
MapFailed(v, docs, id, msg) ==
    [i \in DOMAIN docs |->
        IF docs[i].id = id
        THEN IF v = "rich"
             THEN [docs[i] EXCEPT !.error = msg, !.progress = 0, !.uploaded = FALSE]
             ELSE [docs[i] EXCEPT !.error = <<"Failed: ">> \o msg, !.progress = 0]
        ELSE docs[i]]

\* prev.filter(d => d.id !== id)
FilterOut(docs, id) == SelectSeq(docs, LAMBDA d : d.id # id)

Ids(docs) == { docs[i].id : i \in DOMAIN docs }

------------------------------------------------------------------------------
(* handleFileUpload *)

Outcome(failed, message) == [failed |-> failed, message |-> message]
Succeeded == Outcome(FALSE, << >>)

\* mutant: the !sessionRes.ok test is missing
CreateSessionOutcomeUnchecked(v, r) ==
    CASE r.net = "throw" -> Outcome(TRUE, TransportErrorText)
      [] r.body # "object" -> Outcome(TRUE, SyntaxErrorText)
      [] OTHER -> Succeeded

\* What the try block does with the create-session response: the message of
\* the error it throws, if it throws.
CreateSessionOutcome(v, r) ==
    CASE r.net = "throw" -> Outcome(TRUE, TransportErrorText)
      [] r.net = "non2xx" /\ v = "rich" ->
            Outcome(TRUE, OrElse(IF r.body = "object" THEN r.error ELSE << >>,
                                 <<"Session creation failed: ">> \o ErrorStatus))
      [] r.net = "non2xx" /\ v # "rich" -> Outcome(TRUE, <<"Session creation failed">>)
      [] r.body # "object" -> Outcome(TRUE, SyntaxErrorText)
      [] OTHER -> Succeeded

\* The same for the upload-pdf response.
UploadPdfOutcome(v, r) ==
    CASE r.net = "throw" -> Outcome(TRUE, TransportErrorText)
      [] r.net = "non2xx" /\ v = "rich" ->
            Outcome(TRUE, OrElse(IF r.body = "object" THEN r.error ELSE << >>,
                                 <<"Upload failed: ">> \o ErrorStatus \o <<" ">>
                                     \o ErrorStatusText))
      [] r.net = "non2xx" /\ v # "rich" ->
            Outcome(TRUE, OrElse(IF r.body = "object" THEN r.error ELSE << >>,
                                 <<"Upload failed (">> \o ErrorStatus \o <<")">>))
      [] v = "rich" /\ r.body # "object" -> Outcome(TRUE, SyntaxErrorText)
      [] OTHER -> Succeeded

\* The same for the upload response of "filename".
UploadOutcome(r) ==
    CASE r.net = "throw" -> Outcome(TRUE, TransportErrorText)
      [] r.net = "non2xx" ->
            Outcome(TRUE,
                IF SafeJsonParseError(r) # << >>
                THEN <<"Upload failed: ">> \o ErrorStatus \o <<" ">> \o ErrorStatusText
                ELSE OrElse(r.error, <<"Upload failed (Status: ">> \o ErrorStatus
                                         \o <<")">>))
      [] SafeJsonParseError(r) # << >> -> Outcome(TRUE, SafeJsonParseError(r))
      [] OTHER -> Succeeded

\* setApiError of the catch block ("basic" has none)
UploadFailedBanner(v, file, msg, banner) ==
    IF v = "basic" THEN banner
    ELSE <<"Failed to upload ", file.name, ": ">> \o msg

Upload(pc, files, idx, id, sessionId, resp) ==
    [pc |-> pc, files |-> files, idx |-> idx, id |-> id, sessionId |-> sessionId,
     resp |-> resp]

\* Math.random().toString(36).substring(2, 11): a fresh id
FreshId(n) == ToString(n + 1)

FirstRequest(v) == IF v = "filename" THEN "upload" ELSE "createSession"

FirstResponses(v, n) ==
    IF v = "filename" THEN UploadResponses ELSE CreateSessionResponses(v, n + 1)

\* The loop from file `from` on, until it awaits the first request of the next
\* accepted file or runs out of files.  r is the outcome of that request.
LoopFrom(v, files, from, docs, banner, n, r) ==
    LET s == SkipRejected(v, files, from, banner) IN
    IF s.idx > Len(files)
    THEN [documents |-> docs, apiError |-> s.apiError, started |-> FALSE,
          upload |-> Upload("done", files, s.idx, "", NoSession, NoResponse)]
    ELSE [documents |-> MapProgress(Append(docs, NewDocument(FreshId(n), files[s.idx])),
                                    FreshId(n), ProgressStarted(v)),
          apiError |-> s.apiError, started |-> TRUE,
          upload |-> Upload(FirstRequest(v), files, s.idx, FreshId(n), NoSession, r)]

\* The outcomes the next first request can have, if the loop reaches one.
LoopResponses(v, files, from, n) ==
    IF SkipRejected(v, files, from, << >>).idx > Len(files)
    THEN { NoResponse } ELSE FirstResponses(v, n)

SessionsCreated(r) == IF r.net = "2xx" /\ r.body = "object" /\ r.data # NoData
                      THEN 1 ELSE 0

\* handleFileUpload(files) up to its first await.  Here and below R is the set
\* of outcomes the next-state relation lets the request issued in the step have.
HandleFileUpload(files, R) ==
    /\ \E r \in R \cap LoopResponses(variant, files, 1, nextSession) :
         LET l == LoopFrom(variant, files, 1, documents, << >>, nextId, r) IN
         /\ documents' = l.documents
         /\ apiError' = l.apiError
         /\ uploads' = Append(uploads, l.upload)
         /\ nextId' = nextId + (IF l.started THEN 1 ELSE 0)
         /\ nextSession' = nextSession
                + (IF variant \in SessionBased /\ l.started THEN SessionsCreated(r) ELSE 0)
    /\ UNCHANGED <<variant, cleared, backendStatus, health, showSources,
                   unhandled, messages, input, loading, sessionInfo, removals,
                   listings, infos, chats>>

\* The continuation after the current file's try/catch has finished with the
\* registry docs and the banner: the next iterations of the loop.
NextFile(u, R, docs, banner, info) ==
    LET up == uploads[u] IN
    \E r \in R \cap LoopResponses(variant, up.files, up.idx + 1, nextSession) :
        LET l == LoopFrom(variant, up.files, up.idx + 1, docs, banner, nextId, r) IN
        /\ documents' = l.documents
        /\ apiError' = l.apiError
        /\ sessionInfo' = info
        /\ uploads' = [uploads EXCEPT ![u] = l.upload]
        /\ nextId' = nextId + (IF l.started THEN 1 ELSE 0)
        /\ nextSession' = nextSession
               + (IF variant \in SessionBased /\ l.started THEN SessionsCreated(r) ELSE 0)

\* create-session has settled
CreateSessionSettled(u, R) ==
    LET up == uploads[u]
        o == CreateSessionOutcome(variant, up.resp) IN
    /\ up.pc = "createSession"
    /\ IF o.failed
       THEN NextFile(u, R, MapFailed(variant, documents, up.id, o.message),
                     UploadFailedBanner(variant, up.files[up.idx], o.message, apiError),
                     sessionInfo)
       ELSE /\ documents' = MapSession(documents, up.id, ProgressSession(variant),
                                       up.resp.data)
            /\ \E r \in R \cap UploadPdfResponses(variant) :
                 uploads' = [uploads EXCEPT ![u] =
                     Upload("uploadPdf", up.files, up.idx, up.id, up.resp.data, r)]
            /\ UNCHANGED <<apiError, sessionInfo, nextId, nextSession>>
    /\ UNCHANGED <<variant, cleared, backendStatus, health, showSources,
                   unhandled, messages, input, loading, removals, listings,
                   infos, chats>>

\* upload-pdf has settled
UploadPdfSettled(u, R) ==
    LET up == uploads[u]
        o == UploadPdfOutcome(variant, up.resp) IN
    /\ up.pc = "uploadPdf"
    /\ IF o.failed
       THEN NextFile(u, R, MapFailed(variant, documents, up.id, o.message),
                     UploadFailedBanner(variant, up.files[up.idx], o.message, apiError),
                     sessionInfo)
       ELSE NextFile(u, R, MapUploaded(documents, up.id), apiError,
                     IF variant = "rich" /\ up.resp.data # NoData
                     THEN up.sessionId ELSE sessionInfo)
    /\ UNCHANGED <<variant, cleared, backendStatus, health, showSources,
                   unhandled, messages, input, loading, removals, listings,
                   infos, chats>>

\* upload of "filename" has settled
UploadSettled(u, R) ==
    LET up == uploads[u]
        o == UploadOutcome(up.resp)
        docs == MapProgress(documents, up.id, ProgressSession(variant)) IN
    /\ up.pc = "upload"
    /\ IF o.failed
       THEN NextFile(u, R, FilterOut(docs, up.id),
                     UploadFailedBanner(variant, up.files[up.idx], o.message, apiError),
                     sessionInfo)
       ELSE NextFile(u, R, MapStored(docs, up.id, up.resp.data), apiError, sessionInfo)
    /\ UNCHANGED <<variant, cleared, backendStatus, health, showSources,
                   unhandled, messages, input, loading, removals, listings,
                   infos, chats>>

------------------------------------------------------------------------------
(* removeDocument *)

\* DELETE /clear-session/:id and DELETE /delete-document/:name.  Only "rich"
\* reads the body of a non-2xx response.
DeleteResponses(v) ==
    { Throws, Response("2xx", "object", NoError, NoData) }
    \cup (IF v = "rich" THEN ErrorResponses
          ELSE { Response("non2xx", "invalid", NoError, NoData) })

Removal(pc, id, original, resp) ==
    [pc |-> pc, id |-> id, original |-> original, resp |-> resp]

\* The sessionId removeDocument was called with: that of the row's Document.
SessionOf(original, id) ==
    LET i == CHOOSE i \in DOMAIN original :
                 /\ original[i].id = id
                 /\ \A j \in 1..(i - 1) : original[j].id # id
    IN original[i].sessionId

\* originalDocuments.find(d => d.id === id)?.selected
WasSelected(original, id) ==
    \E i \in DOMAIN original : /\ original[i].id = id
                               /\ \A j \in 1..(i - 1) : original[j].id # id
                               /\ original[i].selected

\* removeDocument(doc.id, doc.sessionId) of the row's delete button ("rich",
\* "basic"), up to its await; without a session id it makes no request.
RemoveDocument(i, R) ==
    LET doc == documents[i] IN
    /\ variant \in SessionBased
    /\ documents' = FilterOut(documents, doc.id)
    /\ IF doc.sessionId # NoSession
       THEN /\ \E r \in R \cap DeleteResponses(variant) :
                 removals' = Append(removals, Removal("awaitDelete", doc.id, documents, r))
            /\ UNCHANGED sessionInfo
       ELSE /\ removals' = Append(removals, Removal("done", doc.id, << >>, NoResponse))
            /\ sessionInfo' = IF variant = "rich" /\ WasSelected(documents, doc.id)
                              THEN "null" ELSE sessionInfo
    /\ UNCHANGED <<variant, cleared, backendStatus, health, showSources,
                   unhandled, messages, input, loading, apiError, uploads,
                   listings, infos, chats, nextId, nextSession>>

\* The message of the error the try block throws on the clear-session response.
ClearSessionOutcome(v, r) ==
    CASE r.net = "throw" -> Outcome(TRUE, TransportErrorText)
      [] r.net = "non2xx" /\ v = "rich" ->
            Outcome(TRUE, OrElse(IF r.body = "object" THEN r.error ELSE << >>,
                                 <<"Delete failed: ">> \o ErrorStatus))
      [] r.net = "non2xx" -> Outcome(TRUE, <<"Delete failed (">> \o ErrorStatus \o <<")">>)
      [] OTHER -> Succeeded

RemoveFailedBanner(v, msg) ==
    IF v = "basic" THEN <<"Remove failed: ">> \o msg
    ELSE <<"Failed to remove document: ">> \o msg

\* mutant: the snapshot is put back in the !res.ok branch only
RevertsOnStatusOnly(v, r) == r.net = "non2xx"

\* Does the failure path put the snapshot back?  "rich" reverts in its catch
\* block; "basic" and "filename" revert only in the !res.ok branch.
Reverts(v, r) == v = "rich" \/ r.net = "non2xx"

\* clear-session has settled
ClearSessionSettled(k) ==
    LET rm == removals[k]
        o == ClearSessionOutcome(variant, rm.resp) IN
    /\ variant \in SessionBased
    /\ rm.pc = "awaitDelete"
    /\ removals' = [removals EXCEPT ![k] = Removal(IF o.failed THEN "done" ELSE "removed",
                                                    rm.id, << >>, NoResponse)]
    /\ IF o.failed
       THEN /\ documents' = IF Reverts(variant, rm.resp) THEN rm.original ELSE documents
            /\ apiError' = RemoveFailedBanner(variant, o.message)
            /\ UNCHANGED sessionInfo
       ELSE /\ sessionInfo' = IF variant = "rich" /\ WasSelected(rm.original, rm.id)
                              THEN "null" ELSE sessionInfo
            /\ UNCHANGED <<documents, apiError>>
    /\ cleared' = IF o.failed THEN cleared
                  ELSE cleared \cup { SessionOf(rm.original, rm.id) }
    /\ UNCHANGED <<variant, backendStatus, health, showSources,
                   unhandled, messages, input, loading, uploads, listings,
                   infos, chats, nextId, nextSession>>

------------------------------------------------------------------------------
(* toggleSelection / toggleDocumentSelection *)

\* mutant: the other Documents keep their flag
MapToggleTargetOnly(docs, id) ==
    [i \in DOMAIN docs |->
        IF docs[i].id = id THEN [docs[i] EXCEPT !.selected = ~docs[i].selected]
        ELSE docs[i]]

\* mutant: selected: d.id === id, a select that does not toggle
MapSelect(docs, id) ==
    [i \in DOMAIN docs |-> [docs[i] EXCEPT !.selected = (docs[i].id = id)]]

\* prev.map(d => ({...d, selected: d.id === id ? !d.selected : false}))
MapToggle(docs, id) ==
    [i \in DOMAIN docs |->
        [docs[i] EXCEPT !.selected = IF docs[i].id = id THEN ~docs[i].selected ELSE FALSE]]

\* toggleSelection(id).  "rich" then asks for the session's summary when the
\* Document it finds in the registry it rendered has a session and is uploaded,
\* and clears the summary otherwise.
ToggleSelection(i) ==
    LET doc == documents[i] IN
    /\ documents' = MapToggle(documents, doc.id)
    /\ IF variant = "rich"
       THEN IF doc.sessionId # NoSession /\ doc.uploaded
            THEN /\ infos' = Append(infos, doc.sessionId)
                 /\ UNCHANGED sessionInfo
            ELSE /\ sessionInfo' = "null"
                 /\ UNCHANGED infos
       ELSE UNCHANGED <<sessionInfo, infos>>
    /\ UNCHANGED <<variant, cleared, backendStatus, health, showSources,
                   unhandled, messages, input, loading, apiError, uploads,
                   removals, listings, chats, nextId, nextSession>>

\* mutant: disabled={!!doc.error}
SelectionEnabledWhilePending(v, doc) == v = "filename" \/ doc.error = NoError

\* the selection button of a row: disabled={!doc.uploaded || !!doc.error}
\* ("filename": disabled={!doc.uploaded})
SelectionEnabled(v, doc) ==
    doc.uploaded /\ (v = "filename" \/ doc.error = NoError)

ClickSelection(i) ==
    /\ SelectionEnabled(variant, documents[i])
    /\ ToggleSelection(i)

\* GET /session-info/:id has settled (updateSessionInfo): a 2xx response with a
\* JSON body replaces the summary, anything else is logged and dropped.
SessionInfoSettled(j, ok) ==
    /\ sessionInfo' = IF ok THEN infos[j] ELSE sessionInfo
    /\ infos' = [n \in 1..(Len(infos) - 1) |-> IF n < j THEN infos[n] ELSE infos[n + 1]]
    /\ UNCHANGED <<variant, cleared, backendStatus, health, showSources,
                   unhandled, documents, messages, input, loading, apiError,
                   uploads, removals, listings, chats, nextId, nextSession>>

------------------------------------------------------------------------------
(* "filename": removeDocument and the list of stored documents *)

\* GET /list-documents: the body's documents field, when present, is the list
\* of the stored files' names.
ListResponse(net, body, present, names) ==
    [net |-> net, body |-> body, present |-> present, names |-> names]

ServerLists ==
    { << >>, <<"report.pdf">>, <<"report_1.pdf">>, <<"report.pdf", "report_1.pdf">> }

ListResponses ==
    { ListResponse("throw", "none", FALSE, << >>),
      ListResponse("non2xx", "invalid", FALSE, << >>),
      ListResponse("2xx", "invalid", FALSE, << >>),
      ListResponse("2xx", "empty", FALSE, << >>),
      ListResponse("2xx", "object", FALSE, << >>) }
    \cup { ListResponse("2xx", "object", TRUE, l) : l \in ServerLists }

\* data.documents.map(doc => ({id: doc.filename, name: doc.filename, ...}))
LoadedDocuments(names) ==
    [i \in DOMAIN names |->
        [id |-> names[i], name |-> names[i], size |-> 2 * 1024 * 1024,
         uploaded |-> TRUE, progress |-> ProgressDone, selected |-> FALSE,
         sessionId |-> NoSession, error |-> NoError]]

\* fetchDocuments of the mount effect (part_000:580-615): errors reach the banner
StartupListOutcome(r) ==
    CASE r.net = "throw" -> Outcome(TRUE, TransportErrorText)
      [] r.net = "non2xx" ->
            Outcome(TRUE, <<"Failed to fetch documents (Status: ">> \o ErrorStatus
                              \o <<")">>)
      [] SafeJsonParseError(r) # << >> -> Outcome(TRUE, SafeJsonParseError(r))
      [] OTHER -> Succeeded

StartupListSettled(j, r) ==
    LET o == StartupListOutcome(r) IN
    /\ variant = "filename"
    /\ listings[j] = "startup"
    /\ listings' = [n \in 1..(Len(listings) - 1) |->
                       IF n < j THEN listings[n] ELSE listings[n + 1]]
    /\ documents' = IF ~o.failed /\ r.present THEN LoadedDocuments(r.names)
                    ELSE documents
    /\ apiError' = IF o.failed THEN <<"Failed to load documents: ">> \o o.message
                   ELSE apiError
    /\ UNCHANGED <<variant, cleared, backendStatus, health, showSources,
                   unhandled, messages, input, loading, sessionInfo, uploads,
                   removals, infos, chats, nextId, nextSession>>

\* fetchDocuments of removeDocument (part_000:787-802) reads response.json()
\* of any status: its promise rejects when fetch throws or the body is not JSON.
RefreshListRejects(r) == r.net = "throw" \/ r.body # "object"

\* The call at part_000:802 is neither awaited nor given a handler, so the
\* try/catch of removeDocument has been left when the promise rejects.
RefreshListSettled(j, r) ==
    /\ variant = "filename"
    /\ listings[j] = "refresh"
    /\ listings' = [n \in 1..(Len(listings) - 1) |->
                       IF n < j THEN listings[n] ELSE listings[n + 1]]
    /\ documents' = IF ~RefreshListRejects(r) /\ r.present
                    THEN LoadedDocuments(r.names) ELSE documents
    /\ unhandled' = IF RefreshListRejects(r) THEN unhandled + 1 ELSE unhandled
    /\ UNCHANGED <<variant, cleared, backendStatus, health, showSources,
                   messages, input, loading, apiError, sessionInfo, uploads,
                   removals, infos, chats, nextId, nextSession>>

\* removeDocument(doc.id, doc.name) of the row's delete button, up to its await
RemoveStoredDocument(i, R) ==
    LET doc == documents[i] IN
    /\ variant = "filename"
    /\ documents' = FilterOut(documents, doc.id)
    /\ \E r \in R \cap DeleteResponses(variant) :
         removals' = Append(removals, Removal("awaitDelete", doc.id, documents, r))
    /\ UNCHANGED <<variant, cleared, backendStatus, health, showSources,
                   unhandled, messages, input, loading, apiError, sessionInfo,
                   uploads, listings, infos, chats, nextId, nextSession>>

\* delete-document has settled
DeleteDocumentSettled(k) ==
    LET rm == removals[k] IN
    /\ variant = "filename"
    /\ rm.pc = "awaitDelete"
    /\ removals' = [removals EXCEPT ![k] = Removal(IF Ok(rm.resp) THEN "removed" ELSE "done",
                                                    rm.id, << >>, NoResponse)]
    /\ CASE rm.resp.net = "throw" ->
              /\ apiError' = RemoveFailedBanner(variant, TransportErrorText)
              /\ UNCHANGED <<documents, listings>>
         [] rm.resp.net = "non2xx" ->
              /\ documents' = rm.original
              /\ apiError' = RemoveFailedBanner(variant,
                    <<"Failed to delete from server (Status: ">> \o ErrorStatus \o <<")">>)
              /\ UNCHANGED listings
         [] OTHER ->
              /\ listings' = Append(listings, "refresh")
              /\ UNCHANGED <<documents, apiError>>
    /\ UNCHANGED <<variant, cleared, backendStatus, health, showSources,
                   unhandled, messages, input, loading, sessionInfo, uploads,
                   infos, chats, nextId, nextSession>>

------------------------------------------------------------------------------
(* sendMessage *)

\* The input buffer is a sequence of characters.
Whitespace == { " ", "\n" }

RECURSIVE TrimStart(_)
TrimStart(t) ==
    IF t # << >> /\ Head(t) \in Whitespace THEN TrimStart(Tail(t)) ELSE t

RECURSIVE TrimEnd(_)
TrimEnd(t) ==
    IF t # << >> /\ t[Len(t)] \in Whitespace
    THEN TrimEnd(SubSeq(t, 1, Len(t) - 1)) ELSE t

TrimNothing(t) == t                  \* mutant: input instead of input.trim()

\* String.prototype.trim
Trim(t) == TrimEnd(TrimStart(t))

\* What the user can have typed into the textarea.
Inputs == { << >>, <<" ", "\n">>, <<" ", "W", "h", "y", "?">> }

\* documents.find(d => d.selected && d.uploaded): its index, 0 when there is none
SelectedIndex(docs) ==
    IF \E i \in DOMAIN docs : docs[i].selected /\ docs[i].uploaded
    THEN CHOOSE i \in DOMAIN docs :
            /\ docs[i].selected /\ docs[i].uploaded
            /\ \A j \in 1..(i - 1) : ~(docs[j].selected /\ docs[j].uploaded)
    ELSE 0

Message(role, content, sources) ==
    [role |-> role, content |-> content, sources |-> sources]

\* mutant: setMessages([msg, ...prev])
PrependMessage(prev, msg) == <<msg>> \o prev

\* setMessages(prev => [...prev, msg])
AppendMessage(prev, msg) == Append(prev, msg)

ApologyText(v) ==
    CASE v = "rich" ->
            <<"I encountered an error while processing your question. Please try again.">>
      [] v = "basic" -> <<"Error processing request. Please try again.">>
      [] OTHER ->
            <<"Sorry, I encountered an error processing your request. Please try again.">>

NoAnswerText(v) ==
    IF v = "filename" THEN <<"Sorry, I didn't receive a proper response.">>
    ELSE <<"No response received">>

AnswerText == <<"It is a summary.">>
SourceList == << [content |-> "...", source |-> "report.pdf", type |-> "text"] >>

\* POST /chat and POST /ask: { answer, sources? }
ChatResponse(net, body, error, answer, hasSources, sources) ==
    [net |-> net, body |-> body, error |-> error, answer |-> answer,
     hasSources |-> hasSources, sources |-> sources]

NoChatResponse == ChatResponse("none", "none", NoError, << >>, FALSE, << >>)

ChatResponses(v) ==
    { ChatResponse("throw", "none", NoError, << >>, FALSE, << >>),
      ChatResponse("non2xx", "invalid", NoError, << >>, FALSE, << >>),
      ChatResponse("non2xx", "object", NoError, << >>, FALSE, << >>),
      ChatResponse("non2xx", "object", ServerErrorText, << >>, FALSE, << >>),
      ChatResponse("2xx", "invalid", NoError, << >>, FALSE, << >>),
      ChatResponse("2xx", "object", NoError, << >>, FALSE, << >>),
      ChatResponse("2xx", "object", NoError, AnswerText, FALSE, << >>) }
    \cup (IF v = "rich"
          THEN { ChatResponse("2xx", "object", NoError, AnswerText, TRUE, SourceList) }
          ELSE { })
    \cup (IF v = "filename"
          THEN { ChatResponse("2xx", "empty", NoError, << >>, FALSE, << >>) }
          ELSE { })

\* mutant: a body that does not parse is taken for an empty answer
ChatOutcomeLenient(v, r) ==
    CASE r.net = "throw" -> Outcome(TRUE, TransportErrorText)
      [] r.net = "non2xx" -> Outcome(TRUE, <<"API error: ">> \o ErrorStatus)
      [] OTHER -> Succeeded

\* mutant: "rich" reads data.sources without the fallback to an empty list
ChatOutcomeNeedsSources(v, r) ==
    CASE r.net = "throw" -> Outcome(TRUE, TransportErrorText)
      [] r.net = "non2xx" -> Outcome(TRUE, <<"API error: ">> \o ErrorStatus)
      [] r.body # "object" -> Outcome(TRUE, SyntaxErrorText)
      [] v = "rich" /\ ~r.hasSources -> Outcome(TRUE, <<"sources is undefined">>)
      [] OTHER -> Succeeded

\* The message of the error the try block throws on the chat response.
ChatOutcome(v, r) ==
    CASE r.net = "throw" -> Outcome(TRUE, TransportErrorText)
      [] r.net = "non2xx" /\ v = "rich" ->
            Outcome(TRUE,
                IF r.body = "object"
                THEN OrElse(r.error, <<"API error: ">> \o ErrorStatus)
                ELSE ErrorStatus \o <<": ">> \o ErrorStatusText)
      [] r.net = "non2xx" /\ v = "basic" ->
            Outcome(TRUE,
                OrElse(IF r.body = "object" THEN r.error ELSE << >>,
                       <<"API error: ">> \o ErrorStatus))
      [] r.net = "non2xx" ->
            Outcome(TRUE,
                OrElse(IF SafeJsonParseError(r) = << >> THEN r.error ELSE << >>,
                       <<"API error: ">> \o ErrorStatus \o <<" ">> \o ErrorStatusText))
      [] v = "filename" /\ SafeJsonParseError(r) # << >> ->
            Outcome(TRUE, SafeJsonParseError(r))
      [] r.body # "object" -> Outcome(TRUE, SyntaxErrorText)
      [] OTHER -> Succeeded

\* mutant: the answer of the response is dropped
BotMessageWithoutAnswer(v, r) == Message("bot", NoAnswerText(v), << >>)

\* The bot message of a successful response.
BotMessage(v, r) ==
    Message("bot", OrElse(r.answer, NoAnswerText(v)),
            IF v = "rich" /\ r.hasSources THEN r.sources ELSE << >>)

\* mutant: setLoading(false) at the end of try instead of in finally
ClearsLoadingAfterTryOnly(failed) == ~failed

\* finally { setLoading(false) }: runs after the try block and after the catch
ClearsLoading(failed) == TRUE

Chat(pc, question, target, resp, outcome) ==
    [pc |-> pc, question |-> question, target |-> target, resp |-> resp,
     outcome |-> outcome]

Finished(outcome) == Chat("done", << >>, NoData, NoChatResponse, outcome)

\* What the request names: the session of the selected Document, or its name.
ChatTarget(v, doc) == IF v = "filename" THEN doc.name ELSE doc.sessionId

\* sendMessage() up to its await
SendMessage(R) ==
    LET sel == SelectedIndex(documents) IN
    /\ IF Trim(input) = << >> \/ sel = 0
       THEN /\ chats' = Append(chats, Finished("returned"))
            /\ UNCHANGED <<messages, input, loading, apiError>>
       ELSE /\ messages' = AppendMessage(messages, Message("user", input, << >>))
            /\ input' = << >>
            /\ loading' = TRUE
            /\ apiError' = << >>
            /\ \E r \in R \cap ChatResponses(variant) :
                 chats' = Append(chats,
                     Chat("awaitChat", input, ChatTarget(variant, documents[sel]), r,
                          "pending"))
    /\ UNCHANGED <<variant, cleared, backendStatus, health, showSources,
                   unhandled, documents, sessionInfo, uploads, removals,
                   listings, infos, nextId, nextSession>>

\* the chat request has settled
ChatSettled(c) ==
    LET ch == chats[c]
        o == ChatOutcome(variant, ch.resp) IN
    /\ ch.pc = "awaitChat"
    /\ IF o.failed
       THEN /\ apiError' = o.message
            /\ messages' = AppendMessage(messages,
                                         Message("bot", ApologyText(variant), << >>))
            /\ loading' = IF ClearsLoading(TRUE) THEN FALSE ELSE loading
            /\ chats' = [chats EXCEPT ![c] = Finished("failed")]
       ELSE /\ messages' = AppendMessage(messages, BotMessage(variant, ch.resp))
            /\ IF variant = "rich" /\ ch.target # NoSession
               THEN /\ chats' = [chats EXCEPT ![c] =
                            Chat("awaitInfo", << >>, ch.target, NoChatResponse, "answered")]
                    /\ UNCHANGED loading
               ELSE /\ chats' = [chats EXCEPT ![c] = Finished("answered")]
                    /\ loading' = IF ClearsLoading(FALSE) THEN FALSE ELSE loading
            /\ UNCHANGED apiError
    /\ UNCHANGED <<variant, cleared, backendStatus, health, showSources,
                   unhandled, documents, input, sessionInfo, uploads,
                   removals, listings, infos, nextId, nextSession>>

\* "rich": the awaited updateSessionInfo of sendMessage has settled; then finally
ChatInfoSettled(c, ok) ==
    LET ch == chats[c] IN
    /\ ch.pc = "awaitInfo"
    /\ sessionInfo' = IF ok THEN ch.target ELSE sessionInfo
    /\ loading' = IF ClearsLoading(FALSE) THEN FALSE ELSE loading
    /\ chats' = [chats EXCEPT ![c] = Finished("answered")]
    /\ UNCHANGED <<variant, cleared, backendStatus, health, showSources,
                   unhandled, documents, messages, input, apiError, uploads,
                   removals, listings, infos, nextId, nextSession>>

\* The chat controls: the textarea and the send button.
TextareaEnabled ==
    SelectedIndex(documents) # 0 /\ (variant = "filename" \/ ~loading)

SendEnabled ==
    ~loading /\ Trim(input) # << >> /\ SelectedIndex(documents) # 0

\* onChange of the textarea
SetInput(text) ==
    /\ TextareaEnabled
    /\ input' = text
    /\ UNCHANGED <<variant, cleared, backendStatus, health, showSources,
                   unhandled, documents, messages, loading, apiError,
                   sessionInfo, uploads, removals, listings, infos, chats,
                   nextId, nextSession>>

\* Enter in the textarea
PressEnter(R) == TextareaEnabled /\ SendMessage(R)

\* click on the send button
ClickSend(R) == SendEnabled /\ SendMessage(R)

------------------------------------------------------------------------------
(* toggleSources, "rich" only *)

\* showSources[i] as the render reads it: a missing key is falsy
ShowsSources(shown, i) == i \in DOMAIN shown /\ shown[i]

\* mutant: the update drops the other keys
FlipSourcesAlone(shown, i) == [k \in { i } |-> ~ShowsSources(shown, i)]

\* prev => ({...prev, [messageIndex]: !prev[messageIndex]})
FlipSources(shown, i) ==
    [k \in DOMAIN shown \cup { i } |->
        IF k = i THEN ~ShowsSources(shown, i) ELSE shown[k]]

\* toggleSources(messageIndex)
ToggleSources(i) ==
    /\ variant = "rich"
    /\ showSources' = FlipSources(showSources, i)
    /\ UNCHANGED <<variant, cleared, backendStatus, health, unhandled,
                   documents, messages, input, loading, apiError, sessionInfo,
                   uploads, removals, listings, infos, chats, nextId,
                   nextSession>>

\* The Show/Hide Sources button is rendered under bot messages with sources.
SourcesButton(msg) == msg.role = "bot" /\ Len(msg.sources) > 0

ClickSources(i) == SourcesButton(messages[i]) /\ ToggleSources(i)

------------------------------------------------------------------------------
(* checkHealth: the mount effect of "rich" and "basic" *)

\* Where checkHealth is, and the status line of the response it has taken.
Health(pc, net) == [pc |-> pc, net |-> net]

\* GET /health: the request throws or is answered with a status line.
HealthResponses == { "throw", "non2xx", "2xx" }

\* The bodies a 2xx answer can carry.
HealthBodies == { "object", "invalid", "empty" }

\* fetch(`${API_BASE_URL}/health`) has settled.  "basic" sets the status from
\* res.ok; "rich" sets it for a non-2xx answer and a thrown request, and for a
\* 2xx answer first awaits res.json().
HealthSettled(net) ==
    /\ variant \in SessionBased
    /\ health.pc = "awaitHealth"
    /\ IF net = "2xx" /\ variant = "rich"
       THEN /\ health' = Health("awaitJson", net)
            /\ UNCHANGED backendStatus
       ELSE /\ health' = Health("done", net)
            /\ backendStatus' = IF net = "2xx" THEN "healthy" ELSE "unhealthy"
    /\ UNCHANGED <<variant, cleared, showSources, unhandled, documents,
                   messages, input, loading, apiError, sessionInfo, uploads,
                   removals, listings, infos, chats, nextId, nextSession>>

\* res.json() of "rich" has settled: a body that is no JSON rejects, and the
\* catch block sets "unhealthy".
HealthBodyRead(body) ==
    /\ variant = "rich"
    /\ health.pc = "awaitJson"
    /\ health' = Health("done", health.net)
    /\ backendStatus' = IF body = "object" THEN "healthy" ELSE "unhealthy"
    /\ UNCHANGED <<variant, cleared, showSources, unhandled, documents,
                   messages, input, loading, apiError, sessionInfo, uploads,
                   removals, listings, infos, chats, nextId, nextSession>>

------------------------------------------------------------------------------
(* The component after it has mounted *)

Init ==
    /\ variant \in Variants
    /\ documents = << >>
    /\ messages = << >>
    /\ input = << >>
    /\ loading = FALSE
    /\ apiError = << >>
    /\ sessionInfo = "null"
    /\ uploads = << >>
    /\ removals = << >>
    /\ listings = IF variant = "filename" THEN <<"startup">> ELSE << >>
    /\ infos = << >>
    /\ chats = << >>
    /\ nextId = 0
    /\ nextSession = 0
    /\ backendStatus = "unknown"
    /\ health = IF variant \in SessionBased THEN Health("awaitHealth", "none")
                ELSE Health("absent", "none")
    /\ showSources = << >>
    /\ unhandled = 0
    /\ cleared = { }

------------------------------------------------------------------------------
(* Uploads with removals in between: every kind of file, every response. *)

Batches == UNION { [1..n -> Files] : n \in 1..MaxBatch }

\* Every outcome of every request.
AnyResponse ==
    { NoResponse } \cup UploadResponses
    \cup UNION { CreateSessionResponses(v, nextSession + 1) \cup UploadPdfResponses(v)
                 \cup DeleteResponses(v) : v \in Variants }

NextUpload ==
    \/ /\ Len(uploads) < UploadCalls
       /\ \E files \in Batches : HandleFileUpload(files, AnyResponse)
    \/ \E u \in DOMAIN uploads : CreateSessionSettled(u, AnyResponse)
    \/ \E u \in DOMAIN uploads : UploadPdfSettled(u, AnyResponse)
    \/ \E u \in DOMAIN uploads : UploadSettled(u, AnyResponse)
    \/ /\ Len(removals) < UploadRemovals
       /\ \E i \in DOMAIN documents : RemoveDocument(i, AnyResponse)
    \/ \E k \in DOMAIN removals : ClearSessionSettled(k)
    \/ /\ Len(removals) < UploadRemovals
       /\ \E i \in DOMAIN documents : RemoveStoredDocument(i, AnyResponse)
    \/ \E k \in DOMAIN removals : DeleteDocumentSettled(k)
    \/ \E j \in DOMAIN listings, r \in ListResponses : StartupListSettled(j, r)
    \/ \E j \in DOMAIN listings, r \in ListResponses : RefreshListSettled(j, r)

SpecUpload == Init /\ [][NextUpload]_vars

------------------------------------------------------------------------------
(* The session based components: uploads, selection through the rows'      *)
(* selection buttons, removals and their rollbacks, in any interleaving.    *)

InitSessionBased == Init /\ variant \in SessionBased

ReportPdf == File("report.pdf", PdfType, 2 * 1024 * 1024)

\* One outcome of each kind: the request throws, is answered 500, is answered
\* 200 with the body the endpoint promises.
PlainResponse ==
    { r \in AnyResponse : r.body # "invalid" /\ r.body # "empty" /\ r.error = << >> }
    \cup { Response("non2xx", "invalid", NoError, NoData) }

NextDocs ==
    \/ /\ Len(uploads) < DocsCalls
       /\ HandleFileUpload(<<ReportPdf>>, PlainResponse)
    \/ \E u \in DOMAIN uploads : CreateSessionSettled(u, PlainResponse)
    \/ \E u \in DOMAIN uploads : UploadPdfSettled(u, PlainResponse)
    \/ /\ Len(removals) < DocsRemovals
       /\ \E i \in DOMAIN documents : RemoveDocument(i, PlainResponse)
    \/ \E k \in DOMAIN removals : ClearSessionSettled(k)
    \/ /\ Len(infos) < DocsInfos
       /\ \E i \in DOMAIN documents : ClickSelection(i)
    \/ \E j \in DOMAIN infos, ok \in BOOLEAN : SessionInfoSettled(j, ok)

SpecDocs == InitSessionBased /\ [][NextDocs]_vars

\* The same with toggleSelection called on any row, enabled or not.
NextHandlers ==
    \/ /\ Len(uploads) < DocsCalls
       /\ HandleFileUpload(<<ReportPdf>>, PlainResponse)
    \/ \E u \in DOMAIN uploads : CreateSessionSettled(u, PlainResponse)
    \/ \E u \in DOMAIN uploads : UploadPdfSettled(u, PlainResponse)
    \/ /\ Len(removals) < DocsRemovals
       /\ \E i \in DOMAIN documents : RemoveDocument(i, PlainResponse)
    \/ \E k \in DOMAIN removals : ClearSessionSettled(k)
    \/ /\ Len(infos) < DocsInfos
       /\ \E i \in DOMAIN documents : ToggleSelection(i)
    \/ \E j \in DOMAIN infos, ok \in BOOLEAN : SessionInfoSettled(j, ok)

SpecHandlers == InitSessionBased /\ [][NextHandlers]_vars

------------------------------------------------------------------------------
(* The chat pane of all three components: one file is uploaded or the       *)
(* stored files are listed, a Document is selected, the user types, and      *)
(* sendMessage is called whether or not its controls are enabled.            *)

\* The stored files are listed, or the listing fails.
PlainLists ==
    { ListResponse("throw", "none", FALSE, << >>),
      ListResponse("2xx", "object", TRUE, <<"report.pdf">>) }

NextChat ==
    \/ /\ Len(uploads) < ChatUploads
       /\ HandleFileUpload(<<ReportPdf>>, PlainResponse)
    \/ \E u \in DOMAIN uploads : CreateSessionSettled(u, PlainResponse)
    \/ \E u \in DOMAIN uploads : UploadPdfSettled(u, PlainResponse)
    \/ \E u \in DOMAIN uploads : UploadSettled(u, PlainResponse)
    \/ \E j \in DOMAIN listings, r \in PlainLists : StartupListSettled(j, r)
    \/ /\ Len(infos) < DocsInfos
       /\ \E i \in DOMAIN documents : ClickSelection(i)
    \/ \E j \in DOMAIN infos, ok \in BOOLEAN : SessionInfoSettled(j, ok)
    \/ \E text \in Inputs : SetInput(text)
    \/ /\ Len(chats) < ChatCalls
       /\ SendMessage(ChatResponses(variant))
    \/ \E c \in DOMAIN chats : ChatSettled(c)
    \/ \E c \in DOMAIN chats, ok \in BOOLEAN : ChatInfoSettled(c, ok)

SpecChat == Init /\ [][NextChat]_vars

------------------------------------------------------------------------------
(* The health check beside the chat pane: checkHealth settles at any point   *)
(* of the user's work.                                                       *)

NextHealth ==
    \/ \E net \in HealthResponses : HealthSettled(net)
    \/ \E body \in HealthBodies : HealthBodyRead(body)
    \/ NextChat

SpecHealth == Init /\ [][NextHealth]_vars

------------------------------------------------------------------------------
(* The chat pane worked through its controls: sendMessage is called by Enter *)
(* in the textarea and by the send button, each only while it is enabled.    *)

NextControls ==
    \/ /\ Len(uploads) < ChatUploads
       /\ HandleFileUpload(<<ReportPdf>>, PlainResponse)
    \/ \E u \in DOMAIN uploads : CreateSessionSettled(u, PlainResponse)
    \/ \E u \in DOMAIN uploads : UploadPdfSettled(u, PlainResponse)
    \/ \E u \in DOMAIN uploads : UploadSettled(u, PlainResponse)
    \/ \E j \in DOMAIN listings, r \in PlainLists : StartupListSettled(j, r)
    \/ /\ Len(infos) < DocsInfos
       /\ \E i \in DOMAIN documents : ClickSelection(i)
    \/ \E j \in DOMAIN infos, ok \in BOOLEAN : SessionInfoSettled(j, ok)
    \/ \E text \in Inputs : SetInput(text)
    \/ /\ Len(chats) < ChatCalls
       /\ PressEnter(ChatResponses(variant))
    \/ /\ Len(chats) < ChatCalls
       /\ ClickSend(ChatResponses(variant))
    \/ \E c \in DOMAIN chats : ChatSettled(c)
    \/ \E c \in DOMAIN chats, ok \in BOOLEAN : ChatInfoSettled(c, ok)

SpecControls == Init /\ [][NextControls]_vars

------------------------------------------------------------------------------
(* The selection in all three components: files are uploaded or listed and   *)
(* the rows' selection buttons are clicked.                                   *)

NextSelect ==
    \/ /\ Len(uploads) < DocsCalls
       /\ HandleFileUpload(<<ReportPdf>>, PlainResponse)
    \/ \E u \in DOMAIN uploads : CreateSessionSettled(u, PlainResponse)
    \/ \E u \in DOMAIN uploads : UploadPdfSettled(u, PlainResponse)
    \/ \E u \in DOMAIN uploads : UploadSettled(u, PlainResponse)
    \/ \E j \in DOMAIN listings, r \in PlainLists : StartupListSettled(j, r)
    \/ /\ Len(infos) < DocsInfos
       /\ \E i \in DOMAIN documents : ClickSelection(i)
    \/ \E j \in DOMAIN infos, ok \in BOOLEAN : SessionInfoSettled(j, ok)

SpecSelect == Init /\ [][NextSelect]_vars

------------------------------------------------------------------------------
(* The session based components from upload to question: two uploads, a      *)
(* removal with its rollback, the selection buttons and the chat controls.   *)

\* The question is answered, or the request throws.
PlainAnswers(v) ==
    { r \in ChatResponses(v) :
         \/ r.net = "throw"
         \/ r.net = "2xx" /\ r.body = "object" /\ r.answer # << >> }

NextAsk ==
    \/ /\ Len(uploads) < DocsCalls
       /\ HandleFileUpload(<<ReportPdf>>, PlainResponse)
    \/ \E u \in DOMAIN uploads : CreateSessionSettled(u, PlainResponse)
    \/ \E u \in DOMAIN uploads : UploadPdfSettled(u, PlainResponse)
    \/ /\ Len(removals) < AskRemovals
       /\ \E i \in DOMAIN documents : RemoveDocument(i, PlainResponse)
    \/ \E k \in DOMAIN removals : ClearSessionSettled(k)
    \/ /\ Len(infos) < DocsInfos
       /\ \E i \in DOMAIN documents : ClickSelection(i)
    \/ \E j \in DOMAIN infos, ok \in BOOLEAN : SessionInfoSettled(j, ok)
    \/ \E text \in Inputs : SetInput(text)
    \/ /\ Len(chats) < AskCalls
       /\ PressEnter(PlainAnswers(variant))
    \/ /\ Len(chats) < AskCalls
       /\ ClickSend(PlainAnswers(variant))
    \/ \E c \in DOMAIN chats : ChatSettled(c)
    \/ \E c \in DOMAIN chats, ok \in BOOLEAN : ChatInfoSettled(c, ok)

SpecAsk == InitSessionBased /\ [][NextAsk]_vars

------------------------------------------------------------------------------
(* The chat pane with the Show/Hide Sources buttons of its bot messages. *)

NextSources ==
    \/ NextChat
    \/ \E i \in DOMAIN messages : ClickSources(i)

SpecSources == Init /\ [][NextSources]_vars

------------------------------------------------------------------------------
(* Properties of handleFileUpload *)

InFlightPcs == { "createSession", "uploadPdf", "upload" }

\* The Documents of a registry that carry an id.
WithId(docs, id) == { docs[i] : i \in { j \in DOMAIN docs : docs[j].id = id } }

\* part appears in msg as a run of consecutive pieces
Carries(msg, part) ==
    \E i \in 1..(Len(msg) - Len(part) + 1) : SubSeq(msg, i, i + Len(part) - 1) = part

\* The files the specification accepts: exactly application/pdf, at most 10 MiB.
Acceptable(file) == file.type = "application/pdf" /\ file.size <= 10 * 1024 * 1024

\* This step ran the loop of invocation u from file `from` on.
RanLoop(u, from) ==
    \/ /\ u = Len(uploads) + 1
       /\ u \in DOMAIN uploads'
       /\ from = 1
    \/ /\ u \in DOMAIN uploads
       /\ uploads[u].pc \in InFlightPcs
       /\ uploads'[u].idx > uploads[u].idx
       /\ from = uploads[u].idx + 1

\* What C1 asks of a step that ran the loop from file `from` to where it stopped.
ValidationStep(u, from) ==
    LET up == uploads'[u]
        accepted == up.idx <= Len(up.files)
        skipped == { k \in from..(up.idx - 1) : k <= Len(up.files) }
        added == { i \in DOMAIN documents' : documents'[i].id = FreshId(nextId) } IN
    \* only rejected files are skipped, and only an acceptable file is taken up
    /\ \A k \in skipped : ~Acceptable(up.files[k])
    /\ accepted => Acceptable(up.files[up.idx])
    \* the only Document added and the only request issued are the accepted file's
    /\ Cardinality(added) = (IF accepted THEN 1 ELSE 0)
    /\ \A i \in added : documents'[i].name = up.files[up.idx].name
    /\ Len(documents') <= Len(documents) + Cardinality(added)
    /\ nextId' = nextId + Cardinality(added)
    /\ (up.pc \in InFlightPcs) = accepted
    /\ ~accepted => up.pc = "done" /\ up.resp = NoResponse
    \* a rejected file leaves its validation message in the banner
    /\ skipped # { } =>
          /\ apiError' # << >>
          /\ apiError' = ValidationMessage(variant, up.files[up.idx - 1])

\* C1: in all three components, a file of a batch that is not exactly
\* application/pdf or is larger than 10*1024*1024 bytes gets no Document and no
\* request and leaves a non-empty validation message in the banner; every other
\* file, a PDF of exactly 10*1024*1024 bytes included, is taken up.
C1_RejectedFilesLeaveNoDocument ==
    [][\A u \in 1..(Len(uploads) + 1), from \in 1..(MaxBatch + 1) :
          RanLoop(u, from) => ValidationStep(u, from)]_vars

\* A batch of the 10 MiB file and a file one byte larger has been worked off:
\* the first is uploaded, the second has left only its message.
C1_Witness ==
    /\ Len(uploads) = 1
    /\ uploads[1].pc = "done"
    /\ uploads[1].files = << File("limit.pdf", PdfType, SizeLimit),
                             File("big.pdf", PdfType, SizeLimit + 1) >>
    /\ Len(documents) = 1
    /\ documents[1].name = "limit.pdf" /\ documents[1].uploaded
    /\ apiError = ValidationMessage(variant, File("big.pdf", PdfType, SizeLimit + 1))

\* The response is a success of its endpoint: a 2xx status and, where the
\* component reads the body, a JSON object.
CallSucceeded(r) == r.net = "2xx" /\ r.body = "object"
UploadPdfSucceeded(v, r) == r.net = "2xx" /\ (v = "rich" => r.body = "object")

\* The step in which invocation u takes the response of its request at pc.
Settles(u, pc) ==
    /\ u \in DOMAIN uploads
    /\ uploads[u].pc = pc
    /\ uploads'[u] # uploads[u]

\* C2 as stated: in the session based components, when create-session and
\* upload-pdf of a file both succeed, the file's Document ends with progress
\* 100, uploaded, no error, and the session id its own create-session returned.
C2_UploadedDocumentHoldsItsSession ==
    [][\A u \in DOMAIN uploads :
          Settles(u, "uploadPdf") /\ variant \in SessionBased
              /\ UploadPdfSucceeded(variant, uploads[u].resp)
          => \A d \in WithId(documents', uploads[u].id) :
                /\ d.progress = 100
                /\ d.uploaded
                /\ d.error = NoError
                /\ d.sessionId = uploads[u].sessionId]_vars

\* C3: in the session based components, when create-session of a file fails
\* (non-2xx, transport error, unparsable body) the file's Document is left with
\* progress 0, not uploaded, a non-empty error, and the invocation goes on to
\* the next file without an upload-pdf request for this one.
C3_SessionFailureStopsTheFile ==
    [][\A u \in DOMAIN uploads :
          /\ variant \in SessionBased => uploads'[u].idx >= uploads[u].idx
          /\ Settles(u, "createSession") /\ variant \in SessionBased
                /\ ~CallSucceeded(uploads[u].resp)
             => /\ uploads'[u].pc = "done" \/ uploads'[u].idx > uploads[u].idx
                /\ \A d \in WithId(documents', uploads[u].id) :
                      d.progress = 0 /\ ~d.uploaded /\ d.error # << >>]_vars

\* A Document whose create-session was answered 500 without an error field.
C3_Witness ==
    /\ variant \in SessionBased
    /\ \E i \in DOMAIN documents :
          /\ documents[i].sessionId = NoSession
          /\ documents[i].progress = 0 /\ ~documents[i].uploaded
          /\ Carries(documents[i].error, <<"Session creation failed">>)
                \/ Carries(documents[i].error, <<"Session creation failed: ">> \o ErrorStatus)
    /\ \E u \in DOMAIN uploads : uploads[u].pc = "done"

\* C4: in the session based components, when create-session succeeded and
\* upload-pdf fails, the failing step removes no Document, and the file's
\* Document is left with progress 0, not uploaded and a non-empty error; after a
\* non-2xx response the error carries the server's error field when there is
\* one and the HTTP status otherwise.
C4_UploadFailureKeepsTheDocument ==
    [][\A u \in DOMAIN uploads :
          Settles(u, "uploadPdf") /\ variant \in SessionBased
              /\ ~UploadPdfSucceeded(variant, uploads[u].resp)
          => /\ Ids(documents) \subseteq Ids(documents')
             /\ \A d \in WithId(documents', uploads[u].id) :
                   /\ d.progress = 0 /\ ~d.uploaded /\ d.error # << >>
                   /\ uploads[u].resp.net = "non2xx" =>
                         IF uploads[u].resp.body = "object"
                               /\ uploads[u].resp.error # << >>
                         THEN Carries(d.error, uploads[u].resp.error)
                         ELSE Carries(d.error, ErrorStatus)]_vars

\* A Document that has its session and whose upload-pdf was answered 500 with
\* the server's error field.
C4_Witness ==
    /\ variant \in SessionBased
    /\ \E i \in DOMAIN documents :
          /\ documents[i].sessionId # NoSession
          /\ documents[i].progress = 0 /\ ~documents[i].uploaded
          /\ Carries(documents[i].error, ServerErrorText)

------------------------------------------------------------------------------
(* Properties of the selection *)

Selected(docs) == { i \in DOMAIN docs : docs[i].selected }

\* A removal has been rolled back: its banner is up and the Document is back.
RolledBack ==
    /\ \E k \in DOMAIN removals : removals[k].pc = "done"
    /\ Carries(apiError, <<"Failed to remove document: ">>)
          \/ Carries(apiError, <<"Remove failed: ">>)

\* C5: in every reachable state of the session based components, whatever the
\* interleaving of uploads, toggleSelection calls, removals and their
\* rollbacks, at most one Document of the registry is selected.
C5_AtMostOneSelected == Cardinality(Selected(documents)) <= 1

\* Two Documents, the second selected after the first was, and a rollback.
C5_Witness ==
    /\ Len(documents) = 2
    /\ documents[2].selected /\ ~documents[1].selected
    /\ RolledBack
    /\ \E j \in DOMAIN infos : infos[j] = documents[1].sessionId

\* C6: in every reachable state of the session based components, with
\* toggleSelection reached only through the rows' selection buttons, every
\* selected Document is uploaded and has no error.
C6_SelectedIsUploaded ==
    \A i \in Selected(documents) :
        documents[i].uploaded /\ documents[i].error = NoError

\* A selected Document beside one whose upload failed, after a rollback.
C6_Witness ==
    /\ Len(documents) = 2
    /\ \E i, j \in DOMAIN documents :
          /\ documents[i].selected
          /\ documents[j].error # NoError
    /\ RolledBack

------------------------------------------------------------------------------
(* Properties of sendMessage *)

\* No Document is both selected and uploaded.
NothingUsable(docs) == \A i \in DOMAIN docs : ~(docs[i].selected /\ docs[i].uploaded)

\* The text is empty or consists of white space.
Blank(t) == \A k \in DOMAIN t : t[k] \in { " ", "\n" }

\* This step is an invocation of sendMessage; c is its place in chats.
Invokes(c) == c = Len(chats) + 1 /\ c \in DOMAIN chats'

\* This step takes the response of the chat request of invocation c.
ChatSettles(c) == c \in DOMAIN chats /\ chats[c].pc = "awaitChat" /\ chats'[c] # chats[c]

\* The chat request succeeded: a 2xx status and a JSON object as body.
ChatSucceeded(r) == r.net = "2xx" /\ r.body = "object"

\* C7: sendMessage is a no-op when no Document is both selected and uploaded or
\* when the input is empty or white space: transcript, input, loading flag and
\* banner stay as they are and no request is issued.
C7_SendMessageNoOp ==
    [][\A c \in 1..(Len(chats) + 1) :
          Invokes(c) /\ (NothingUsable(documents) \/ Blank(input))
          => /\ UNCHANGED <<messages, input, loading, apiError, documents, sessionInfo>>
             /\ chats'[c].pc = "done"
             /\ chats'[c].resp = NoChatResponse]_vars

\* sendMessage has returned once, with a question typed and nothing selected.
C7_Witness ==
    /\ Len(chats) = 1
    /\ chats[1].outcome = "returned"
    /\ ~Blank(input)
    /\ NothingUsable(documents)
    /\ \E i \in DOMAIN documents : documents[i].uploaded
    /\ messages = << >>

\* C8: an invocation that passes the preconditions and whose request succeeds
\* appends two messages: the user message with the question when it is invoked,
\* before the request is out, and one bot message with the response's answer
\* when the request settles; no apology, and it clears the banner when invoked
\* and does not set it afterwards.
C8_SuccessAppendsQuestionAndAnswer ==
    [][\A c \in 1..(Len(chats) + 1) :
          /\ Invokes(c) /\ ~NothingUsable(documents) /\ ~Blank(input)
             => /\ messages' = Append(messages, Message("user", input, << >>))
                /\ apiError' = << >>
                /\ chats'[c].pc = "awaitChat"
                /\ chats'[c].question = input
          /\ ChatSettles(c) /\ ChatSucceeded(chats[c].resp)
             => /\ Len(messages') = Len(messages) + 1
                /\ SubSeq(messages', 1, Len(messages)) = messages
                /\ messages'[Len(messages')].role = "bot"
                /\ messages'[Len(messages')].content =
                      (IF chats[c].resp.answer # << >> THEN chats[c].resp.answer
                       ELSE NoAnswerText(variant))
                /\ messages'[Len(messages')].content # ApologyText(variant)
                /\ apiError' = apiError
                /\ chats'[c].outcome = "answered"
          /\ c \in DOMAIN chats /\ chats[c].pc = "awaitInfo" /\ chats'[c] # chats[c]
             => /\ messages' = messages
                /\ apiError' = apiError
                /\ chats'[c].pc = "done"]_vars

\* The question and its answer, nothing else, and an empty banner.
C8_Witness ==
    /\ messages = << Message("user", <<" ", "W", "h", "y", "?">>, << >>),
                     Message("bot", AnswerText, << >>) >>
    /\ apiError = << >>
    /\ \E c \in DOMAIN chats : chats[c].pc = "done" /\ chats[c].outcome = "answered"

\* The error string behind a failed chat request.
UnderlyingError(v, r, banner) ==
    CASE r.net = "throw" -> banner = TransportErrorText
      [] r.net = "non2xx" /\ r.body = "object" /\ r.error # << >> -> banner = r.error
      [] r.net = "non2xx" -> Carries(banner, ErrorStatus)
      [] OTHER -> banner \in { SyntaxErrorText, SafeJsonParseError(r) }

\* C9: an invocation that passes the preconditions and whose request fails
\* (transport error, non-2xx, unparsable body) appends the user message and then
\* one bot message with the apology text; the banner gets the underlying error
\* string, which is not the apology text.  (The server's error field is a text
\* of the server's own.)
C9_FailureAppendsApology ==
    [][\A c \in 1..(Len(chats) + 1) :
          /\ Invokes(c) /\ chats'[c].pc # "done"
             => messages' = Append(messages, Message("user", input, << >>))
          /\ ChatSettles(c) /\ ~ChatSucceeded(chats[c].resp)
             => /\ messages' = Append(messages,
                                      Message("bot", ApologyText(variant), << >>))
                /\ UnderlyingError(variant, chats[c].resp, apiError')
                /\ apiError' # << >>
                /\ apiError' # ApologyText(variant)
                /\ chats'[c].pc = "done"
                /\ chats'[c].outcome = "failed"]_vars

\* The question and the apology, and the server's error field in the banner.
C9_Witness ==
    /\ Len(messages) = 2
    /\ messages[1].role = "user"
    /\ messages[2] = Message("bot", ApologyText(variant), << >>)
    /\ apiError = ServerErrorText
    /\ \E c \in DOMAIN chats : chats[c].outcome = "failed"

\* C10: whatever the outcome of the request (success, non-2xx, transport error,
\* a body that does not parse), the step that ends an invocation that passed
\* its preconditions sets loading to false, and a settled request either ends
\* the invocation or, in "rich" after a success, leaves only the awaited
\* session-info request before it ends.
C10_LoadingCleared ==
    [][\A c \in DOMAIN chats :
          /\ chats[c].pc # "done" /\ chats'[c].pc = "done" => loading' = FALSE
          /\ ChatSettles(c)
             => \/ chats'[c].pc = "done"
                \/ /\ chats'[c].pc = "awaitInfo"
                   /\ variant = "rich" /\ ChatSucceeded(chats[c].resp)]_vars

\* A request answered 200 with a body that does not parse: apology, loading off.
C10_Witness ==
    /\ ~loading
    /\ \E c \in DOMAIN chats : chats[c].outcome = "failed"
    /\ apiError \in { SyntaxErrorText,
                      SafeJsonParseError(ChatResponse("2xx", "invalid", NoError, << >>,
                                                      FALSE, << >>)) }
    /\ messages # << >> /\ messages[Len(messages)].content = ApologyText(variant)

------------------------------------------------------------------------------
(* Properties of removeDocument *)

\* The teardown request of removal k settles in this step.
RemovalSettles(k) ==
    /\ removals[k].pc = "awaitDelete"
    /\ removals'[k].pc # "awaitDelete"

TeardownFailed(r) == r.net \in { "throw", "non2xx" }

\* C11: in all three components, the step that takes a failed teardown response
\* of removeDocument (a non-2xx status or a request that throws) leaves the
\* removed Document back in the registry and the error banner set.
C11_FailedRemovalIsReverted ==
    [][\A k \in DOMAIN removals :
          RemovalSettles(k) /\ TeardownFailed(removals[k].resp)
          => /\ removals[k].id \in Ids(documents')
             /\ apiError' # NoError]_vars

\* C12: in the session based components, a Document whose removeDocument call
\* had its teardown request answered 2xx is absent from the registry in every
\* later state, whatever removals, rollbacks and uploads are interleaved.
C12_RemovedStaysRemoved ==
    \A k \in DOMAIN removals :
        removals[k].pc = "removed" => removals[k].id \notin Ids(documents)

\* Removal k is invoked in this step and waits for its teardown request.
RemovalInvoked(k) ==
    /\ k \notin DOMAIN removals
    /\ removals'[k].pc = "awaitDelete"

\* C13: in ChatApp.tsx the snapshot removeDocument takes is the whole registry
\* of the state it is invoked in (same Documents, same order, same field
\* values), the optimistic step only filters the Document out, and the step
\* that takes a failed teardown response makes the registry equal to that
\* snapshot; so with no step in between the registry is as before the call.
C13_RollbackRestoresSnapshot ==
    [][variant = "rich"
       => /\ \A k \in DOMAIN removals' :
                RemovalInvoked(k)
                => /\ removals'[k].original = documents
                   /\ documents' = FilterOut(documents, removals'[k].id)
          /\ \A k \in DOMAIN removals :
                RemovalSettles(k) /\ TeardownFailed(removals[k].resp)
                => documents' = removals[k].original]_vars

\* A removal of ChatApp.tsx whose request threw, and its Document back.
C13_Witness ==
    /\ variant = "rich"
    /\ apiError = RemoveFailedBanner("rich", TransportErrorText)
    /\ \E k \in DOMAIN removals :
          removals[k].pc = "done" /\ removals[k].id \in Ids(documents)

------------------------------------------------------------------------------
(* Properties of a batch *)

\* Invocation u takes, in this step, a response that fails its current file:
\* the request threw or was answered with a non-2xx status.
FileFails(u) ==
    /\ uploads[u].pc \in InFlightPcs
    /\ uploads'[u] # uploads[u]
    /\ uploads[u].resp.net \in { "throw", "non2xx" }

\* C14: in all three components, the step in which a file of a batch fails
\* goes on with the next accepted file of the batch (skipping only files the
\* validation rejects), whose Document is added and whose first request is
\* issued, and changes no Document of the registry other than the failed
\* file's own.
C14_FailureLeavesSiblingsAlone ==
    [][\A u \in DOMAIN uploads :
          FileFails(u)
          => LET up == uploads[u]
                 nxt == uploads'[u] IN
             /\ nxt.idx > up.idx
             /\ \A k \in (up.idx + 1)..(nxt.idx - 1) :
                   k <= Len(up.files) => ~Acceptable(up.files[k])
             /\ IF nxt.idx <= Len(up.files)
                THEN /\ nxt.pc = FirstRequest(variant)
                     /\ Acceptable(up.files[nxt.idx])
                     /\ \E d \in WithId(documents', nxt.id) :
                           /\ d.name = up.files[nxt.idx].name
                           /\ d.progress = ProgressStarted(variant)
                ELSE nxt.pc = "done"
             /\ SelectSeq(documents', LAMBDA d : d.id \notin { up.id, nxt.id })
                   = FilterOut(documents, up.id)]_vars

\* A batch of two accepted files of ChatApp.tsx: the first has failed, the
\* second is uploaded.
C14_Witness ==
    /\ variant = "rich"
    /\ Len(uploads) = 1 /\ uploads[1].pc = "done"
    /\ Len(uploads[1].files) = 2
    /\ \A k \in 1..2 : Acceptable(uploads[1].files[k])
    /\ Len(documents) = 2
    /\ documents[1].error # NoError /\ ~documents[1].uploaded
    /\ documents[2].uploaded /\ documents[2].error = NoError

------------------------------------------------------------------------------
(* Properties of toggleSelection / toggleDocumentSelection *)

\* A step of the selection operation: no upload or removal moves, and the
\* registry changes in the selected flags only.
SelectionStep ==
    /\ uploads' = uploads /\ removals' = removals /\ listings' = listings
    /\ documents' # documents
    /\ DOMAIN documents' = DOMAIN documents
    /\ \A i \in DOMAIN documents :
          [documents'[i] EXCEPT !.selected = documents[i].selected] = documents[i]

\* C15 as stated: in all three components the selection operation applied to
\* a Document that is not uploaded is a no-op, so no step of the operation
\* makes a Document selected whose uploaded flag is false.
C15_ToggleOfPendingDocumentIsNoOp ==
    [][\A i \in DOMAIN documents :
          SelectionStep /\ ~documents[i].uploaded /\ ~documents[i].selected
          => ~documents'[i].selected]_vars

\* C16 as stated: in ChatApp.tsx, when the teardown of a removeDocument call
\* on the Document that was selected succeeds, the call ends with no Document
\* of the registry selected and with the session summary null.
C16_RemovingSelectedClearsSelection ==
    [][\A k \in DOMAIN removals :
          /\ variant = "rich"
          /\ RemovalSettles(k) /\ Ok(removals[k].resp)
          /\ \E d \in WithId(removals[k].original, removals[k].id) : d.selected
          => /\ Selected(documents') = { }
             /\ sessionInfo' = "null"]_vars

\* The rows of the registry that carry the id of row i.
SameId(docs, i) == { j \in DOMAIN docs : docs[j].id = docs[i].id }

------------------------------------------------------------------------------
(* Properties of checkHealth *)

\* C17 as stated: in the session based components the status is unknown while
\* the one /health request of the mount effect is out; when checkHealth
\* completes the status is healthy for a 2xx answer and unhealthy for a
\* non-2xx answer or a request that threw; once it has left unknown the status
\* never changes, and checkHealth never runs again.
C17_HealthIsSetOnce ==
    [][(variant \in SessionBased)
       => /\ health.pc = "awaitHealth" => backendStatus = "unknown"
          /\ health'.pc # "awaitHealth" => backendStatus' # "unknown" \/ health'.pc = "awaitJson"
          /\ health.pc # "done" /\ health'.pc = "done"
             => backendStatus' = (IF health'.net = "2xx" THEN "healthy" ELSE "unhealthy")
          /\ backendStatus # "unknown" => backendStatus' = backendStatus
          /\ health.pc # "awaitHealth" => health'.pc # "awaitHealth"
          /\ health.pc = "done" => health' = health]_vars

------------------------------------------------------------------------------
(* Properties of the transcript *)

\* The invocations of sendMessage that have appended their user message and
\* not yet their bot message.
InFlight == { c \in DOMAIN chats : chats[c].pc = "awaitChat" }

\* C18 as stated: with sendMessage called through the chat controls, at most
\* one invocation is in flight at any time.
C18_OneQuestionInFlight == Cardinality(InFlight) <= 1

\* C19: in every step of every operation the transcript either stays as it
\* is or gets exactly one message appended at its end; no message is ever
\* removed, reordered or modified.
C19_TranscriptIsAppendOnly ==
    [][\/ messages' = messages
       \/ /\ Len(messages') = Len(messages) + 1
          /\ SubSeq(messages', 1, Len(messages)) = messages]_vars

\* Two questions have been asked, one answered and one not.
C19_Witness ==
    /\ Len(messages) = 4
    /\ messages[1].role = "user" /\ messages[3].role = "user"
    /\ \E i, j \in { 2, 4 } : /\ messages[i].content = ApologyText(variant)
                              /\ messages[j].content = AnswerText

------------------------------------------------------------------------------
(* Properties of error handling *)

\* C21 as stated: no operation (startup health check, startup document
\* listing, sendMessage, handleFileUpload, removeDocument with its post-delete
\* refresh, updateSessionInfo) ends in an unhandled rejection, whatever the
\* remote outcome is.
C21_NoUnhandledRejection == unhandled = 0

------------------------------------------------------------------------------
(* Properties of the steps of an upload task *)

\* The task of invocation u continues after one of its awaits.
TaskStep(u) ==
    /\ u \in DOMAIN uploads
    /\ uploads[u].pc \in InFlightPcs
    /\ uploads'[u] # uploads[u]

\* The step of invocation u has gone on to the next file of its batch.
StartsNextFile(u) == uploads'[u].pc # "done" /\ uploads'[u].idx > uploads[u].idx

\* C22: in the session-based variants every registry update of a file's upload
\* task (progress, session id, completion, failure) changes only the Document
\* with the task's id: the other Documents, the order of the registry and its
\* membership stay as they are, whatever other upload tasks are in flight; the
\* only other change of such a step is the Document of the batch's next file,
\* appended at the end.
C22_TaskUpdatesOnlyItsDocument ==
    [][(variant \in SessionBased) =>
       \A u \in DOMAIN uploads : TaskStep(u) =>
          /\ Len(documents') = Len(documents) + (IF StartsNextFile(u) THEN 1 ELSE 0)
          /\ \A i \in DOMAIN documents :
                /\ documents'[i].id = documents[i].id
                /\ documents[i].id # uploads[u].id => documents'[i] = documents[i]
          /\ StartsNextFile(u) =>
                documents'[Len(documents')].id = uploads'[u].id]_vars

\* Two tasks ran interleaved: the second has completed while the first still
\* waits for its session.
C22_Witness ==
    /\ variant \in SessionBased
    /\ Len(documents) = 2 /\ Len(uploads) = 2
    /\ uploads[1].pc = "createSession" /\ uploads[2].pc = "done"
    /\ documents[1].id = uploads[1].id
    /\ documents[1].progress = ProgressStarted(variant)
    /\ documents[2].uploaded /\ documents[2].progress = ProgressDone

\* The step issues the upload-pdf request of invocation u.
IssuesUploadPdf(u) ==
    /\ u \in DOMAIN uploads'
    /\ uploads'[u].pc = "uploadPdf"
    /\ u \in DOMAIN uploads => uploads'[u] # uploads[u]

\* C23: in the session-based variants the upload-pdf request of a file is
\* issued only by the step in which the file's create-session request has
\* succeeded; it carries the session id that response returned, and in the
\* state in which the request is issued the file's Document, unless it has
\* been removed meanwhile, records that id.
C23_UploadPdfFollowsItsSession ==
    [][(variant \in SessionBased) =>
       \A u \in DOMAIN uploads' : IssuesUploadPdf(u) =>
          /\ u \in DOMAIN uploads
          /\ uploads[u].pc = "createSession"
          /\ uploads'[u].idx = uploads[u].idx /\ uploads'[u].id = uploads[u].id
          /\ CallSucceeded(uploads[u].resp)
          /\ uploads'[u].sessionId = uploads[u].resp.data
          /\ \A d \in WithId(documents', uploads[u].id) :
                d.sessionId = uploads[u].resp.data]_vars

\* An upload-pdf request is in flight for a Document that is in the registry.
C23_Witness ==
    /\ variant \in SessionBased
    /\ \E u \in DOMAIN uploads :
          /\ uploads[u].pc = "uploadPdf"
          /\ uploads[u].sessionId # NoSession
          /\ \E d \in WithId(documents, uploads[u].id) :
                d.sessionId = uploads[u].sessionId

\* C24 as stated: the accepted files of one batch are uploaded concurrently,
\* so the step that invokes handleFileUpload, which is over before any remote
\* call of the batch has completed, has added one Document to the registry for
\* each accepted file of the batch.
C24_BatchDocumentsAddedAtOnce ==
    [][\A u \in DOMAIN uploads' \ DOMAIN uploads :
          Len(documents') = Len(documents)
              + Cardinality({ k \in DOMAIN uploads'[u].files :
                                 Acceptable(uploads'[u].files[k]) })]_vars

\* C25: removing a Document while its upload is in flight does not cancel the
\* upload.  When the task continues and no Document has its id, a successful
\* create-session is still followed by the upload-pdf request, and the step
\* leaves the registry as it is, apart from the Document of the batch's next
\* file that it appends.
C25_RemovalDoesNotCancelUpload ==
    [][\A u \in DOMAIN uploads :
          (TaskStep(u) /\ uploads[u].id \notin Ids(documents)) =>
             /\ (uploads[u].pc = "createSession" /\ CallSucceeded(uploads[u].resp))
                   => /\ uploads'[u].pc = "uploadPdf"
                      /\ uploads'[u].idx = uploads[u].idx
                      /\ uploads'[u].sessionId = uploads[u].resp.data
             /\ IF StartsNextFile(u)
                THEN /\ Len(documents') = Len(documents) + 1
                     /\ SubSeq(documents', 1, Len(documents)) = documents
                     /\ documents'[Len(documents')].id = uploads'[u].id
                ELSE documents' = documents]_vars

\* The only Document was removed while its task was waiting for create-session,
\* and the task has then completed its upload-pdf request.
C25_Witness ==
    /\ variant = "rich"
    /\ documents = << >>
    /\ Len(uploads) = 1 /\ uploads[1].pc = "done"
    /\ Len(removals) = 1 /\ removals[1].pc = "done"
    /\ nextSession = 1
    /\ apiError = << >>

------------------------------------------------------------------------------
(* Properties of the chat request *)

\* C26 as stated: in the session-based variants every chat request issued by
\* sendMessage carries a defined session id, the sessionId of the Document
\* that was selected and uploaded when sendMessage was invoked, and the text
\* that was in the input buffer at that moment; when the request is issued
\* the input buffer is empty and loading is true.
C26_ChatRequestNamesASession ==
    [][(variant \in SessionBased) =>
       \A c \in DOMAIN chats' : (Invokes(c) /\ chats'[c].pc = "awaitChat") =>
          /\ chats'[c].target # NoSession
          /\ \E i \in DOMAIN documents :
                /\ documents[i].selected /\ documents[i].uploaded
                /\ chats'[c].target = documents[i].sessionId
          /\ chats'[c].question = input
          /\ input' = << >>
          /\ loading' = TRUE]_vars

\* C27: in ChatApp.tsx a successful chat response without a sources field
\* yields a bot message with an empty source list and counts as a success: the
\* one message appended is the answer, not the apology, and the step does not
\* touch the banner.
C27_AnswerWithoutSources ==
    [][(variant = "rich") =>
       \A c \in DOMAIN chats :
          (ChatSettles(c) /\ ChatSucceeded(chats[c].resp)
                          /\ ~chats[c].resp.hasSources) =>
             /\ messages' = Append(messages,
                    Message("bot", OrElse(chats[c].resp.answer, NoAnswerText("rich")),
                            << >>))
             /\ messages'[Len(messages')].content # ApologyText("rich")
             /\ apiError' = apiError
             /\ chats'[c].outcome = "answered"]_vars

\* "rich" has answered a question without sources, and the banner is empty.
C27_Witness ==
    /\ variant = "rich"
    /\ Len(messages) = 2
    /\ messages[2] = Message("bot", AnswerText, << >>)
    /\ apiError = << >>
    /\ Len(chats) = 1 /\ chats[1].outcome = "answered"

------------------------------------------------------------------------------
(* Properties of toggleSources *)

\* C28: in ChatApp.tsx the sources of a bot message are hidden when the
\* message is appended; toggleSources(i) flips the visibility of message i
\* only and leaves the visibility of every other message and the transcript
\* as they are; and a visibility flag always belongs to a message of the
\* transcript, which no step replaces by another one.
C28_SourcesVisibility ==
    [][(variant = "rich") =>
       /\ \A n \in DOMAIN messages' \ DOMAIN messages :
             ~ShowsSources(showSources', n)
       /\ showSources' # showSources =>
             /\ messages' = messages
             /\ \E i \in DOMAIN messages :
                   /\ ShowsSources(showSources', i) = ~ShowsSources(showSources, i)
                   /\ \A k \in DOMAIN messages \ { i } :
                         ShowsSources(showSources', k) = ShowsSources(showSources, k)
       /\ \A k \in DOMAIN showSources :
             /\ k \in DOMAIN messages
             /\ messages'[k] = messages[k]]_vars

\* Two answers with sources: the first one's sources were shown and hidden
\* again, the second one's are shown.
C28_Witness ==
    /\ variant = "rich"
    /\ Len(messages) = 4
    /\ SourcesButton(messages[2]) /\ SourcesButton(messages[4])
    /\ 2 \in DOMAIN showSources /\ ~ShowsSources(showSources, 2)
    /\ ShowsSources(showSources, 4)

------------------------------------------------------------------------------
(* Properties of the registry of ChatApp.tsx *)

\* C29 as stated: in every reachable state of ChatApp.tsx every Document has
\* progress 0, 25, 50 or 100; a Document with uploaded = true has progress 100,
\* a defined sessionId and no error; a Document with an error has uploaded =
\* false and progress 0.
C29_DocumentInvariants ==
    (variant = "rich") =>
       \A i \in DOMAIN documents :
          LET d == documents[i] IN
          /\ d.progress \in { 0, 25, 50, 100 }
          /\ d.uploaded => /\ d.progress = 100
                           /\ d.sessionId # NoSession
                           /\ d.error = NoError
          /\ d.error # NoError => ~d.uploaded /\ d.progress = 0

------------------------------------------------------------------------------
(* Properties of the loading flag *)

\* C30 as stated: in every reachable state loading is true whenever at least
\* one sendMessage invocation has issued its request and not yet appended its
\* bot message; the completion of one invocation never clears loading while
\* another one is still in flight.
C30_LoadingWhileInFlight == InFlight # { } => loading

------------------------------------------------------------------------------
(* Properties of the session summary *)

\* No session-info request is in flight, neither of toggleSelection nor of
\* sendMessage.
NoInfoInFlight ==
    /\ infos = << >>
    /\ \A c \in DOMAIN chats : chats[c].pc # "awaitInfo"

\* C31 as stated: in ChatApp.tsx, whenever sessionInfo is not null and no
\* session-info request is in flight, it is the summary of the session of the
\* currently selected Document; it is null when no Document is selected.
C31_SummaryOfTheSelectedDocument ==
    (variant = "rich" /\ NoInfoInFlight /\ sessionInfo # "null") =>
       \E i \in Selected(documents) : sessionInfo = documents[i].sessionId

------------------------------------------------------------------------------
(* Properties of pending Documents *)

\* The Document is neither uploaded nor failed.
Pending(d) == ~d.uploaded /\ d.error = NoError

\* An upload task is still working on the Document with this id.
HasTask(id) ==
    \E u \in DOMAIN uploads : uploads[u].pc \in InFlightPcs /\ uploads[u].id = id

\* C32 as stated, in its finite form: in the session-based variants no
\* Document of the registry is in the pending state (uploaded = false, no
\* error) once its upload task has finished, under any interleaving with
\* removals and their rollbacks; only such a task can take a Document out of
\* the pending state, so a pending Document without one stays pending forever.
C32_PendingDocumentHasTask ==
    (variant \in SessionBased) =>
       \A i \in DOMAIN documents :
          Pending(documents[i]) => HasTask(documents[i].id)

------------------------------------------------------------------------------
(* Frame properties of removeDocument *)

\* Removal k takes a failed teardown response in this step and rolls back.
RollsBack(k) ==
    /\ RemovalSettles(k)
    /\ TeardownFailed(removals[k].resp)
    /\ Reverts(variant, removals[k].resp)

\* C33 as stated: the rollback of a failed removeDocument(id) changes the
\* registry only by putting Document id back; every other Document keeps the
\* state it has at the moment of the rollback, so what uploads, selections and
\* other removals did while the teardown call was in flight is not undone.
C33_RollbackTouchesOnlyItsDocument ==
    [][\A k \in DOMAIN removals : RollsBack(k) =>
          /\ removals[k].id \in Ids(documents')
          /\ FilterOut(documents', removals[k].id)
                = FilterOut(documents, removals[k].id)]_vars

\* The list refreshes of removeDocument that are in flight.
Refreshes(l) == { j \in DOMAIN l : l[j] = "refresh" }

\* A list refresh of a successful removeDocument settles in this step.
RefreshSettles == Cardinality(Refreshes(listings')) < Cardinality(Refreshes(listings))

\* C34 as stated: a successful removeDocument(id) changes the registry only by
\* removing Document id.  The step that invokes it filters that Document out,
\* the step that takes the successful teardown response leaves the registry
\* alone, and in the filename-addressed component the list refresh after the
\* delete keeps every Document of the registry with its selected flag, upload
\* state and progress, Documents whose upload is in flight included.
C34_RemovalTouchesOnlyItsDocument ==
    [][/\ \A k \in DOMAIN removals' :
             (k \notin DOMAIN removals) =>
                documents' = FilterOut(documents, removals'[k].id)
       /\ \A k \in DOMAIN removals :
             (RemovalSettles(k) /\ ~TeardownFailed(removals[k].resp)) =>
                documents' = documents
       /\ RefreshSettles =>
             \A i \in DOMAIN documents : \E j \in DOMAIN documents' :
                /\ documents'[j].id = documents[i].id
                /\ documents'[j].selected = documents[i].selected
                /\ documents'[j].uploaded = documents[i].uploaded
                /\ documents'[j].progress = documents[i].progress]_vars

------------------------------------------------------------------------------
(* Properties of the sessions on the server *)

\* Every upload and every removal has run to its end.
AllCompleted ==
    /\ \A u \in DOMAIN uploads : uploads[u].pc = "done"
    /\ \A k \in DOMAIN removals : removals[k].pc # "awaitDelete"

\* The sessions create-session has returned so far.
Created == { SessionName(n) : n \in 1..nextSession }

\* C35 as stated: in the session-based variants, once all operations have
\* completed, every session that a create-session call returned is recorded
\* as sessionId on a Document of the registry or has been torn down by a
\* successful clear-session call.
C35_NoOrphanSession ==
    (variant \in SessionBased /\ AllCompleted) =>
       \A s \in Created :
          \/ s \in cleared
          \/ \E i \in DOMAIN documents : documents[i].sessionId = s

------------------------------------------------------------------------------
(* Properties of the ids of the filename-addressed component *)

\* C36 as stated: in every reachable state of the filename-addressed
\* component the ids of the Documents of the registry are pairwise distinct,
\* so that at most one Document is marked as selected.
C36_IdsAreDistinct ==
    (variant = "filename") =>
       /\ \A i, j \in DOMAIN documents :
             documents[i].id = documents[j].id => i = j
       /\ Cardinality(Selected(documents)) <= 1

====
